---------------------------- MODULE Spec2Model ----------------------------
(***************************************************************************)
(* Model of the substitution-rule engine of Kormick/ST-Test:               *)
(*   src/src/assignment/mod.rs             Assignment (the rule store)     *)
(*   src/src/assignment/logical_rule.rs    LogicalRuleFn / LogicalRuleStr  *)
(*   src/src/assignment/arithmetic_rule.rs ArithmeticRuleFn / ...Str       *)
(*                                                                         *)
(* Data abstractions                                                       *)
(*   - a String is a sequence of one-character strings;                    *)
(*   - an f64 is an exact rational <<n, d>> in lowest terms with d > 0,    *)
(*     or NaN; rounding of f64 arithmetic is not modelled;                 *)
(*   - an i32 is a two's complement integer of IntBits bits (TLC's own     *)
(*     integers are 32 bits wide, so the exact value of an overflowing     *)
(*     i32 operation cannot be written at full width); overflow of the     *)
(*     i32 subtraction panics (overflow checks on) or wraps (off);         *)
(*   - a boxed closure is the name of one of the closures of the source.   *)
(***************************************************************************)
EXTENDS Integers, Sequences, FiniteSets, TLC

VARIABLES
    logical_rules,      \* Assignment.logical_rules: Vec<Box<dyn LogicalRule>>
    arithmetic_rules,   \* Assignment.arithmetic_rules: HashMap<Token, Box<dyn ArithmeticRule>>
    op,                 \* the last call made on the store, with its arguments
    ret,                \* what that call returned (or that it panicked)
    nadds,              \* number of add_* calls made since construction
    requests,           \* per worker thread, the request its handler serves
    lock,               \* the RwLock around the Assignment of the server
    applied             \* history: the store the server started with and
                        \* the add requests that succeeded, in call order

\* the state of the server; calls made on a store directly leave it alone
server == <<requests, lock, applied>>

vars ==
    <<logical_rules, arithmetic_rules, op, ret, nadds, requests, lock,
      applied>>

-----------------------------------------------------------------------------
(* Bounds of the model *)

MaxAdds == 2

\* worker threads of the HttpServer
NumWorkers == 2

IntBits == 6

-----------------------------------------------------------------------------
(* SubstitutionToken and Option<SubstitutionToken> *)

SubstitutionToken == {"M", "P", "T"}

None == "None"

Panic == [kind |-> "Panic"]

Ok(v) == [kind |-> "Ok", val |-> v]

Err(msg) == [kind |-> "Err", msg |-> msg]

-----------------------------------------------------------------------------
(* i32 *)

I32Max == 2 ^ (IntBits - 1) - 1

I32Min == 0 - 2 ^ (IntBits - 1)

I32 == I32Min .. I32Max

WrapI32(x) == ((x - I32Min) % (2 ^ IntBits)) + I32Min

\* `e - f` on i32: panics when overflow checks are on, wraps otherwise.
SubI32(e, f, overflow_checks) ==
    IF e - f \in I32 THEN Ok(e - f)
    ELSE IF overflow_checks THEN Panic ELSE Ok(WrapI32(e - f))

-----------------------------------------------------------------------------
(* f64 as exact rationals *)

Abs(x) == IF x < 0 THEN 0 - x ELSE x

RECURSIVE Gcd(_, _)
Gcd(x, y) == IF y = 0 THEN x ELSE Gcd(y, x % y)

NaN == <<0, 0>>

Rat(n, d) ==
    IF d = 0 THEN NaN
    ELSE LET g == Gcd(Abs(n), Abs(d))
             s == IF d < 0 THEN 0 - 1 ELSE 1
         IN  <<(s * n) \div g, (s * d) \div g>>

F(n) == <<n, 1>>

IsNaN(x) == x[2] = 0

FAdd(x, y) == IF IsNaN(x) \/ IsNaN(y) THEN NaN
              ELSE Rat(x[1] * y[2] + y[1] * x[2], x[2] * y[2])

FSub(x, y) == IF IsNaN(x) \/ IsNaN(y) THEN NaN
              ELSE Rat(x[1] * y[2] - y[1] * x[2], x[2] * y[2])

FMul(x, y) == IF IsNaN(x) \/ IsNaN(y) THEN NaN
              ELSE Rat(x[1] * y[1], x[2] * y[2])

FDiv(x, y) == IF IsNaN(x) \/ IsNaN(y) THEN NaN
              ELSE Rat(x[1] * y[2], x[2] * y[1])


-----------------------------------------------------------------------------
(* The boxed closures of the source: logical_rule::RuleFn *)

BaseLogicalM(a, b, c) == a /\ b /\ ~c

BaseLogicalP(a, b, c) == a /\ b /\ c

BaseLogicalT(a, b, c) == ~a /\ b /\ c

CustomLogicalT(a, b, c) == a /\ b /\ ~c

CustomLogicalM(a, b, c) == a /\ ~b /\ c

FnA(a, b, c) == a

FnB(a, b, c) == b

\* (self.rule_fn)(a, b, c)
LogicalRuleFnCall(rule_fn, a, b, c) ==
    CASE rule_fn = "base_M"   -> BaseLogicalM(a, b, c)
      [] rule_fn = "base_P"   -> BaseLogicalP(a, b, c)
      [] rule_fn = "base_T"   -> BaseLogicalT(a, b, c)
      [] rule_fn = "custom_T" -> CustomLogicalT(a, b, c)
      [] rule_fn = "custom_M" -> CustomLogicalM(a, b, c)
      [] rule_fn = "a"        -> FnA(a, b, c)
      [] rule_fn = "b"        -> FnB(a, b, c)

\* LogicalRuleFn::new
LogicalRuleFn_new(token, rule_fn) ==
    [variant |-> "Fn", token |-> token, rule_fn |-> rule_fn]

\* <LogicalRuleFn as LogicalRule>::apply
LogicalRuleFn_apply(self, a, b, c) ==
    IF LogicalRuleFnCall(self.rule_fn, a, b, c) THEN self.token ELSE None

-----------------------------------------------------------------------------
(* The boxed closures of the source: arithmetic_rule::RuleFn.  `e as f64`  *)
(* is F(e).  A call returns Ok(f64), or Panic.                             *)

BaseArithM(d, e, f) == Ok(FAdd(d, FDiv(FMul(d, F(e)), <<10, 1>>)))

BaseArithP(d, e, f, overflow_checks) ==
    LET x == SubI32(e, f, overflow_checks)
    IN  IF x = Panic THEN Panic
        ELSE Ok(FAdd(d, FDiv(FMul(d, F(x.val)), <<51, 2>>)))

BaseArithT(d, e, f) == Ok(FSub(d, FDiv(FMul(d, F(f)), <<30, 1>>)))

CustomArithP(d, e, f) ==
    Ok(FAdd(FMul(<<2, 1>>, d), FDiv(FMul(d, F(e)), <<100, 1>>)))

CustomArithM(d, e, f) ==
    Ok(FAdd(FAdd(F(f), d), FDiv(FMul(d, F(e)), <<100, 1>>)))

Const3(d, e, f) == Ok(<<3, 1>>)

Const4(d, e, f) == Ok(<<4, 1>>)

\* (self.rule_fn)(d, e, f)
ArithmeticRuleFnCall(rule_fn, d, e, f, overflow_checks) ==
    CASE rule_fn = "base_M"   -> BaseArithM(d, e, f)
      [] rule_fn = "base_P"   -> BaseArithP(d, e, f, overflow_checks)
      [] rule_fn = "base_T"   -> BaseArithT(d, e, f)
      [] rule_fn = "custom_P" -> CustomArithP(d, e, f)
      [] rule_fn = "custom_M" -> CustomArithM(d, e, f)
      [] rule_fn = "3.0"      -> Const3(d, e, f)
      [] rule_fn = "4.0"      -> Const4(d, e, f)

\* ArithmeticRuleFn::new
ArithmeticRuleFn_new(rule_fn) == [variant |-> "Fn", rule_fn |-> rule_fn]

\* <ArithmeticRuleFn as ArithmeticRule>::apply
ArithmeticRuleFn_apply(self, d, e, f, overflow_checks) ==
    ArithmeticRuleFnCall(self.rule_fn, d, e, f, overflow_checks)

-----------------------------------------------------------------------------
(* Rule strings, one character per element *)

\* "A && B"
S_A_AND_B == <<"A", " ", "&", "&", " ", "B">>

\* "A + B"
S_A_PLUS_B == <<"A", " ", "+", " ", "B">>

\* "&&A"
S_AND_A == <<"&", "&", "A">>

\* "D + E"
S_D_PLUS_E == <<"D", " ", "+", " ", "E">>

\* "D - E"
S_D_MINUS_E == <<"D", " ", "-", " ", "E">>

\* "D && E"
S_D_AND_E == <<"D", " ", "&", "&", " ", "E">>

\* "D ** E"
S_D_STAR_STAR_E == <<"D", " ", "*", "*", " ", "E">>

\* ""
S_EMPTY == <<>>

\* "A"
S_A == <<"A">>

\* "A || D"
S_A_OR_D == <<"A", " ", "|", "|", " ", "D">>

\* "A&&&&B"
S_A_AND_AND_B == <<"A", "&", "&", "&", "&", "B">>

\* "A & B"
S_A_AMP_B == <<"A", " ", "&", " ", "B">>

\* "A = B"
S_A_ASSIGN_B == <<"A", " ", "=", " ", "B">>

\* "/D * E"
S_SLASH_D_TIMES_E == <<"/", "D", " ", "*", " ", "E">>

\* "D(E)"
S_D_CALL_E == <<"D", "(", "E", ")">>

-----------------------------------------------------------------------------
(* Error messages *)

InvalidGrammar == "Expression contains invalid variables or operators."

NoMatchingLogicalRule == "Failed to apply logical rule."

NoArithmeticRuleForToken == "Failed to find arithmetic rule for token."

WrongArgs2 == "An operator expected 2 arguments, but got 1."

WrongArgs1 == "An operator expected 1 arguments, but got 0."

-----------------------------------------------------------------------------
(* Logical rule strings.                                                   *)
(* Regex::new(r"^([ABC ]|&&|==|!=|!|\|\|)+$"): LogicalReFrom(s, i) holds   *)
(* when s[i..] is a sequence of the alternatives of the group.             *)

LogicalReChars == {"A", "B", "C", " "}

RECURSIVE LogicalReFrom(_, _)
LogicalReFrom(s, i) ==
    IF i > Len(s) THEN TRUE
    ELSE \/ s[i] \in LogicalReChars /\ LogicalReFrom(s, i + 1)
         \/ /\ i < Len(s)
            /\ <<s[i], s[i + 1]>> \in
                   {<<"&", "&">>, <<"=", "=">>, <<"!", "=">>, <<"|", "|">>}
            /\ LogicalReFrom(s, i + 2)
         \/ s[i] = "!" /\ LogicalReFrom(s, i + 1)

LogicalReIsMatch(s) == Len(s) > 0 /\ LogicalReFrom(s, 1)

(* evalexpr: the tokens of an expression.  An identifier is a maximal run  *)
(* of letters; "!" followed by "=" is the token "!=".                      *)

IdentChars == {"A", "B", "C", "D", "E", "F", "X", "Z"}

RECURSIVE IdentEnd(_, _)
IdentEnd(s, i) ==
    IF i <= Len(s) /\ s[i] \in IdentChars THEN IdentEnd(s, i + 1) ELSE i

RECURSIVE LogicalTokens(_, _)
LogicalTokens(s, i) ==
    IF i > Len(s) THEN <<>>
    ELSE IF s[i] = " " THEN LogicalTokens(s, i + 1)
    ELSE IF s[i] \in IdentChars
         THEN <<[t |-> "id", v |-> SubSeq(s, i, IdentEnd(s, i) - 1)]>>
                  \o LogicalTokens(s, IdentEnd(s, i))
    ELSE IF i < Len(s) /\ <<s[i], s[i + 1]>> \in
                {<<"&", "&">>, <<"=", "=">>, <<"!", "=">>, <<"|", "|">>}
         THEN <<[t |-> "op", v |-> <<s[i], s[i + 1]>>]>>
                  \o LogicalTokens(s, i + 2)
    ELSE IF s[i] = "!"
         THEN <<[t |-> "op", v |-> <<"!">>]>> \o LogicalTokens(s, i + 1)
    ELSE <<[t |-> "bad", v |-> <<s[i]>>]>> \o LogicalTokens(s, i + 1)

Done(b, i) == [ok |-> TRUE, val |-> b, pos |-> i]

Fail(msg) == [ok |-> FALSE, msg |-> msg]

IsOp(toks, i, ops) ==
    i <= Len(toks) /\ toks[i].t = "op" /\ toks[i].v \in ops

(* evalexpr: operator precedence, highest first: "!", then "==" and "!=",  *)
(* then "&&", then "||"; binary operators chain left to right and both     *)
(* operands are always evaluated.  ctx is the context map A, B, C.         *)

\* the value of "!" applied to the operand r
LNot(r) == IF r.ok THEN Done(~r.val, r.pos) ELSE r

\* the value of the binary operator at left.pos applied to left and r
LCombine(toks, left, r) ==
    IF ~r.ok THEN r
    ELSE Done(CASE toks[left.pos].v = <<"=", "=">> -> left.val = r.val
                [] toks[left.pos].v = <<"!", "=">> -> left.val # r.val
                [] toks[left.pos].v = <<"&", "&">> -> left.val /\ r.val
                [] toks[left.pos].v = <<"|", "|">> -> left.val \/ r.val,
              r.pos)

RECURSIVE LUnary(_, _, _)
LUnary(toks, i, ctx) ==
    IF i > Len(toks) THEN Fail(WrongArgs2)
    ELSE IF toks[i].t = "id"
         THEN IF toks[i].v \in DOMAIN ctx
              THEN Done(ctx[toks[i].v], i + 1)
              ELSE Fail("VariableIdentifierNotFound")
    ELSE IF IsOp(toks, i, {<<"!">>})
         THEN IF i = Len(toks) THEN Fail(WrongArgs1)
              ELSE LNot(LUnary(toks, i + 1, ctx))
    ELSE IF toks[i].t = "op" THEN Fail(WrongArgs2)
    ELSE Fail("UnmatchedPartialToken")

RECURSIVE LEqRest(_, _, _)
LEqRest(toks, left, ctx) ==
    IF ~left.ok THEN left
    ELSE IF IsOp(toks, left.pos, {<<"=", "=">>, <<"!", "=">>})
         THEN LEqRest(toks,
                      LCombine(toks, left, LUnary(toks, left.pos + 1, ctx)),
                      ctx)
    ELSE left

LEq(toks, i, ctx) == LEqRest(toks, LUnary(toks, i, ctx), ctx)

RECURSIVE LAndRest(_, _, _)
LAndRest(toks, left, ctx) ==
    IF ~left.ok THEN left
    ELSE IF IsOp(toks, left.pos, {<<"&", "&">>})
         THEN LAndRest(toks,
                       LCombine(toks, left, LEq(toks, left.pos + 1, ctx)),
                       ctx)
    ELSE left

LAnd(toks, i, ctx) == LAndRest(toks, LEq(toks, i, ctx), ctx)

RECURSIVE LOrRest(_, _, _)
LOrRest(toks, left, ctx) ==
    IF ~left.ok THEN left
    ELSE IF IsOp(toks, left.pos, {<<"|", "|">>})
         THEN LOrRest(toks,
                      LCombine(toks, left, LAnd(toks, left.pos + 1, ctx)),
                      ctx)
    ELSE left

LOr(toks, i, ctx) == LOrRest(toks, LAnd(toks, i, ctx), ctx)

\* context_map! {"A" => a, "B" => b, "C" => c}
ContextMap(a, b, c) ==
    (<<"A">> :> a) @@ (<<"B">> :> b) @@ (<<"C">> :> c)

\* the outcome of the whole expression toks, r being what was read of it
LResult(toks, r) ==
    IF toks = <<>> THEN Err("ExpectedBoolean")
    ELSE IF ~r.ok THEN Err(r.msg)
    ELSE IF r.pos <= Len(toks) THEN Err("AppendedToLeafNode")
    ELSE Ok(r.val)

LValue(toks, ctx) == LResult(toks, LOr(toks, 1, ctx))

\* evalexpr::eval_boolean_with_context: Ok(bool) or Err(message)
eval_boolean_with_context(s, ctx) == LValue(LogicalTokens(s, 1), ctx)

\* Err(e) => Err(e), Ok(_) => Ok(..)
AndThen(r, value) == IF r.kind = "Err" THEN r ELSE Ok(value)

\* LogicalRuleStr::validate without the trial evaluation
LogicalRuleStr_validate_whitelist_only(rule_str) ==
    IF ~LogicalReIsMatch(rule_str) THEN Err(InvalidGrammar) ELSE Ok(<<>>)

\* LogicalRuleStr::validate
LogicalRuleStr_validate(rule_str) ==
    IF ~LogicalReIsMatch(rule_str) THEN Err(InvalidGrammar)
    ELSE AndThen(eval_boolean_with_context(rule_str,
                                           ContextMap(TRUE, TRUE, TRUE)),
                 <<>>)

\* LogicalRuleStr::new dropping the result of validate
LogicalRuleStr_new_unchecked(token, rule_str) ==
    Ok([variant |-> "Str", token |-> token, rule_str |-> rule_str])

\* LogicalRuleStr::new
LogicalRuleStr_new(token, rule_str) ==
    AndThen(LogicalRuleStr_validate(rule_str),
            [variant |-> "Str", token |-> token, rule_str |-> rule_str])

\* the match on res with its branches exchanged
SomeIf_inverted(res, token) ==
    IF res.kind = "Err" THEN "panic"
    ELSE IF res.val THEN None ELSE token

\* res.unwrap() and the match on it
SomeIf(res, token) ==
    IF res.kind = "Err" THEN "panic"
    ELSE IF res.val THEN token ELSE None

\* <LogicalRuleStr as LogicalRule>::apply: Some(token), None, or a panic of
\* the unwrap()
LogicalRuleStr_apply(self, a, b, c) ==
    SomeIf(eval_boolean_with_context(self.rule_str, ContextMap(a, b, c)),
           self.token)

\* dyn LogicalRule::apply
LogicalRule_apply(rule, a, b, c) ==
    IF rule.variant = "Fn" THEN LogicalRuleFn_apply(rule, a, b, c)
    ELSE LogicalRuleStr_apply(rule, a, b, c)

-----------------------------------------------------------------------------
(* Arithmetic rule strings.                                                *)
(* Regex::new(r"^([\dDEF ]|\+|-|\*|/|\(|\))+$")                            *)

Digits == {"0", "1", "2", "3", "4", "5", "6", "7", "8", "9"}

ArithReChars == Digits \cup {"D", "E", "F", " ", "+", "-", "*", "/", "(", ")"}

\* the whitelist pattern without its anchors ^ and $
ArithReIsMatch_unanchored(s) == \E i \in 1..Len(s) : s[i] \in ArithReChars

ArithReIsMatch(s) == Len(s) > 0 /\ \A i \in 1..Len(s) : s[i] \in ArithReChars

NotWhitespace(ch) == ch # " "

\* rule_str.chars().filter(|c| !c.is_whitespace()).collect()
RemoveWhitespace(s) == SelectSeq(s, NotWhitespace)

\* Regex::new(r"-[\dDEF]") with replace_all(.., "({})"): the matches are
\* taken left to right and do not overlap.
RECURSIVE WrapNegative(_, _)
WrapNegative(s, i) ==
    IF i > Len(s) THEN <<>>
    ELSE IF s[i] = "-" /\ i < Len(s) /\ s[i + 1] \in Digits \cup {"D", "E", "F"}
         THEN <<"(", "-", s[i + 1], ")">> \o WrapNegative(s, i + 2)
    ELSE <<s[i]>> \o WrapNegative(s, i + 1)

(* eval::Expr: the tokens of an expression.  The text is cut at the        *)
(* operator characters; a piece between them is a number when it is made   *)
(* of digits only and an identifier otherwise.                             *)

ArithOpChars == {"+", "-", "*", "/", "(", ")"}

RECURSIVE PieceEnd(_, _)
PieceEnd(s, i) ==
    IF i <= Len(s) /\ s[i] \notin ArithOpChars /\ s[i] # " "
    THEN PieceEnd(s, i + 1) ELSE i

DigitVal(ch) ==
    CASE ch = "0" -> 0 [] ch = "1" -> 1 [] ch = "2" -> 2 [] ch = "3" -> 3
      [] ch = "4" -> 4 [] ch = "5" -> 5 [] ch = "6" -> 6 [] ch = "7" -> 7
      [] ch = "8" -> 8 [] ch = "9" -> 9

RECURSIVE ParseNumber(_, _)
ParseNumber(piece, acc) ==
    IF piece = <<>> THEN acc
    ELSE ParseNumber(Tail(piece), 10 * acc + DigitVal(Head(piece)))

RECURSIVE ArithTokens(_, _)
ArithTokens(s, i) ==
    IF i > Len(s) THEN <<>>
    ELSE IF s[i] = " " THEN ArithTokens(s, i + 1)
    ELSE IF s[i] \in ArithOpChars
         THEN <<[t |-> "op", v |-> <<s[i]>>]>> \o ArithTokens(s, i + 1)
    ELSE LET piece == SubSeq(s, i, PieceEnd(s, i) - 1)
         IN  (IF \A k \in 1..Len(piece) : piece[k] \in Digits
              THEN <<[t |-> "num", v |-> piece]>>
              ELSE <<[t |-> "id", v |-> piece]>>)
                 \o ArithTokens(s, PieceEnd(s, i))

Node(ast, i) == [ok |-> TRUE, ast |-> ast, pos |-> i]

BinOp(o, l, r) == [n |-> "bin", o |-> o, l |-> l, r |-> r]

(* eval::Expr::compile: the tree of an expression.  "*" and "/" bind       *)
(* tighter than "+" and "-"; an identifier directly followed by "(" is a   *)
(* function call; "-" is a sign only directly after "(".                   *)

RECURSIVE AFactor(_, _), ATermRest(_, _), AExprRest(_, _), AParen(_, _)

ATerm(toks, i) == ATermRest(toks, AFactor(toks, i))

AExpr(toks, i) == AExprRest(toks, ATerm(toks, i))

\* the bracketed expression r, called as a function when toks[i] is a name
ACallOrGroup(toks, i, r) ==
    IF toks[i].t = "id" /\ r.ok
    THEN Node([n |-> "call", f |-> toks[i].v, x |-> r.ast], r.pos)
    ELSE r

AFactor(toks, i) ==
    IF i > Len(toks) THEN Fail("NotEnoughOperands")
    ELSE IF toks[i].t = "num"
         THEN Node([n |-> "num", v |-> ParseNumber(toks[i].v, 0)], i + 1)
    ELSE IF toks[i].t = "id" /\ ~IsOp(toks, i + 1, {<<"(">>})
         THEN Node([n |-> "id", v |-> toks[i].v], i + 1)
    ELSE IF toks[i].t = "id" \/ IsOp(toks, i, {<<"(">>})
         THEN ACallOrGroup(toks, i,
                  AParen(toks, IF toks[i].t = "id" THEN i + 1 ELSE i))
    ELSE IF IsOp(toks, i, {<<")">>}) THEN Fail("UnpairedBrackets")
    ELSE IF i = 1 THEN Fail("StartWithNonValueOperator")
    ELSE Fail("DuplicateOperatorNode")

\* the operand first with the sign that stood before it
ASigned(signed, first) ==
    IF signed /\ first.ok
    THEN Node([n |-> "neg", x |-> first.ast], first.pos)
    ELSE first

\* the closing bracket after the expression r
AClose(toks, r) ==
    IF ~r.ok THEN r
    ELSE IF IsOp(toks, r.pos, {<<")">>}) THEN Node(r.ast, r.pos + 1)
    ELSE IF r.pos > Len(toks) THEN Fail("UnpairedBrackets")
    ELSE Fail("DuplicateValueNode")

\* toks[i] is "(": the bracketed expression that starts there
AParen(toks, i) ==
    AClose(toks,
        AExprRest(toks,
            ATermRest(toks,
                ASigned(IsOp(toks, i + 1, {<<"-">>}),
                        AFactor(toks, IF IsOp(toks, i + 1, {<<"-">>})
                                      THEN i + 2 ELSE i + 1)))))

\* the node of the binary operator at left.pos over left and r
ACombine(toks, left, r) ==
    IF ~r.ok THEN r
    ELSE Node(BinOp(toks[left.pos].v, left.ast, r.ast), r.pos)

ATermRest(toks, left) ==
    IF ~left.ok THEN left
    ELSE IF IsOp(toks, left.pos, {<<"*">>, <<"/">>})
         THEN ATermRest(toks,
                        ACombine(toks, left, AFactor(toks, left.pos + 1)))
    ELSE left

AExprRest(toks, left) ==
    IF ~left.ok THEN left
    ELSE IF IsOp(toks, left.pos, {<<"+">>, <<"-">>})
         THEN AExprRest(toks,
                        ACombine(toks, left, ATerm(toks, left.pos + 1)))
    ELSE left

\* the outcome of the whole expression toks, r being what was read of it
AResult(toks, r) ==
    IF toks = <<>> THEN Err("NoFinalNode")
    ELSE IF ~r.ok THEN Err(r.msg)
    ELSE IF r.pos <= Len(toks)
         THEN IF IsOp(toks, r.pos, {<<")">>}) THEN Err("UnpairedBrackets")
              ELSE Err("DuplicateValueNode")
    ELSE Ok(r.ast)

ATree(toks) == AResult(toks, AExpr(toks, 1))

\* eval::Expr::new(s).compile(): Ok(tree) or Err(message)
Expr_compile(s) == ATree(ArithTokens(s, 1))

(* eval::Expr::exec: the value of a tree.  A value is a number or Null     *)
(* (written NaN here: serde_json has no non-finite number, so the result   *)
(* of a division by zero is Null); an identifier without a value is Null;  *)
(* arithmetic on Null and a call of an unknown function are errors.        *)

\* .value("D", d).value("E", e).value("F", f)
ExprValues(d, e, f) ==
    (<<"D">> :> d) @@ (<<"E">> :> F(e)) @@ (<<"F">> :> F(f))

RECURSIVE ExecNode(_, _)
ExecNode(ast, ctx) ==
    CASE ast.n = "num"  -> Ok(F(ast.v))
      [] ast.n = "id"   -> IF ast.v \in DOMAIN ctx THEN Ok(ctx[ast.v])
                           ELSE Ok(NaN)
      [] ast.n = "call" -> Err("FunctionNotExists")
      [] ast.n = "neg"  ->
            LET x == ExecNode(ast.x, ctx)
            IN  IF x.kind = "Err" THEN x
                ELSE IF IsNaN(x.val) THEN Err("UnsupportedTypes")
                ELSE Ok(FSub(F(0), x.val))
      [] ast.n = "bin"  ->
            LET l == ExecNode(ast.l, ctx)
                r == ExecNode(ast.r, ctx)
            IN  IF l.kind = "Err" THEN l
                ELSE IF r.kind = "Err" THEN r
                ELSE IF IsNaN(l.val) \/ IsNaN(r.val)
                     THEN Err("UnsupportedTypes")
                ELSE CASE ast.o = <<"+">> -> Ok(FAdd(l.val, r.val))
                       [] ast.o = <<"-">> -> Ok(FSub(l.val, r.val))
                       [] ast.o = <<"*">> -> Ok(FMul(l.val, r.val))
                       [] ast.o = <<"/">> -> Ok(FDiv(l.val, r.val))

\* the value of the compiled expression c
ExecCompiled(c, ctx) == IF c.kind = "Err" THEN c ELSE ExecNode(c.val, ctx)

\* eval::Expr::new(s).value(..).exec()
Expr_exec(s, ctx) == ExecCompiled(Expr_compile(s), ctx)

\* Expr::new(rule_str.clone()).compile()?; Ok(rule_str)
CompileChecked(rule_str) == AndThen(Expr_compile(rule_str), rule_str)

\* ArithmeticRuleStr::validate: Ok(the normalized string) or Err(message)
ArithmeticRuleStr_validate(rule_str) ==
    IF ~ArithReIsMatch(rule_str) THEN Err(InvalidGrammar)
    ELSE CompileChecked(WrapNegative(RemoveWhitespace(rule_str), 1))

\* Self { rule_str: .. } of the validated string v
ArithmeticRuleStr_of(v) ==
    IF v.kind = "Err" THEN v
    ELSE Ok([variant |-> "Str", rule_str |-> v.val])

\* ArithmeticRuleStr::new
ArithmeticRuleStr_new(rule_str) ==
    ArithmeticRuleStr_of(ArithmeticRuleStr_validate(rule_str))

\* res.unwrap().as_f64().unwrap(): no branch for None
UnwrapF64_unwrap_none(res) ==
    IF res.kind = "Err" \/ IsNaN(res.val) THEN Panic ELSE Ok(res.val)

\* res.unwrap().as_f64(), None giving f64::NAN
UnwrapF64(res) ==
    IF res.kind = "Err" THEN Panic
    ELSE IF IsNaN(res.val) THEN Ok(NaN)
    ELSE Ok(res.val)

\* <ArithmeticRuleStr as ArithmeticRule>::apply: Ok(f64), or Panic when the
\* unwrap() of exec()'s result fails
ArithmeticRuleStr_apply(self, d, e, f) ==
    UnwrapF64(Expr_exec(self.rule_str, ExprValues(d, e, f)))

\* dyn ArithmeticRule::apply
ArithmeticRule_apply(rule, d, e, f, overflow_checks) ==
    IF rule.variant = "Fn"
    THEN ArithmeticRuleFn_apply(rule, d, e, f, overflow_checks)
    ELSE ArithmeticRuleStr_apply(rule, d, e, f)

-----------------------------------------------------------------------------
(* Assignment: the rule store *)

\* Assignment::new
Assignment_new ==
    [logical_rules |-> <<>>, arithmetic_rules |-> [t \in {} |-> None]]

\* add_logical_rule that replaces the rules already bound to the new rule's
\* token
add_logical_rule_replace(self, rule) ==
    LET OtherToken(r) == r.token # rule.token
    IN  [self EXCEPT
            !.logical_rules = Append(SelectSeq(@, OtherToken), rule)]

\* Assignment::add_logical_rule: self.logical_rules.push(rule)
add_logical_rule(self, rule) ==
    [self EXCEPT !.logical_rules = Append(@, rule)]

\* HashMap::insert that keeps the rule a token already has (entry().or_insert)
HashMap_insert_keep(map, token, rule) ==
    [t \in DOMAIN map \cup {token} |->
        IF t \in DOMAIN map THEN map[t] ELSE rule]

\* HashMap::insert(token, rule)
HashMap_insert(map, token, rule) ==
    [t \in DOMAIN map \cup {token} |-> IF t = token THEN rule ELSE map[t]]

\* add_arithmetic_rule that also drops the logical rules bound to the token
add_arithmetic_rule_conflated(self, token, rule) ==
    LET OtherToken(r) == r.token # token
    IN  [logical_rules |-> SelectSeq(self.logical_rules, OtherToken),
         arithmetic_rules |-> HashMap_insert(self.arithmetic_rules, token,
                                             rule)]

\* Assignment::add_arithmetic_rule: self.arithmetic_rules.insert(token, rule)
add_arithmetic_rule(self, token, rule) ==
    [self EXCEPT !.arithmetic_rules = HashMap_insert(@, token, rule)]

\* Assignment::add_logical_rule_from_fn
add_logical_rule_from_fn(self, token, rule_fn) ==
    add_logical_rule(self, LogicalRuleFn_new(token, rule_fn))

\* Assignment::add_arithmetic_rule_from_fn
add_arithmetic_rule_from_fn(self, token, rule_fn) ==
    add_arithmetic_rule(self, token, ArithmeticRuleFn_new(rule_fn))

\* match rule { Ok(rule) => { add; Ok(()) }, Err(e) => Err(e) }
AddLogicalChecked(self, rule) ==
    IF rule.kind = "Err" THEN <<self, rule>>
    ELSE <<add_logical_rule(self, rule.val), Ok(<<>>)>>

\* Assignment::add_logical_rule_from_str: <<the store afterwards, the result>>
add_logical_rule_from_str(self, token, rule_str) ==
    AddLogicalChecked(self, LogicalRuleStr_new(token, rule_str))

\* match rule { Ok(rule) => { add; Ok(()) }, Err(e) => Err(e) }
AddArithmeticChecked(self, token, rule) ==
    IF rule.kind = "Err" THEN <<self, rule>>
    ELSE <<add_arithmetic_rule(self, token, rule.val), Ok(<<>>)>>

\* add_arithmetic_rule_from_str that drops the token's rule before it
\* validates the new string
add_arithmetic_rule_from_str_remove_first(self, token, rule_str) ==
    AddArithmeticChecked(
        [self EXCEPT !.arithmetic_rules =
            [t \in DOMAIN @ \ {token} |-> @[t]]],
        token, ArithmeticRuleStr_new(rule_str))

\* Assignment::add_arithmetic_rule_from_str: <<the store afterwards, the result>>
add_arithmetic_rule_from_str(self, token, rule_str) ==
    AddArithmeticChecked(self, token, ArithmeticRuleStr_new(rule_str))

\* add_base_rules that registers no arithmetic rule for T
add_base_rules_without_T(obj) ==
    LET o1 == add_logical_rule_from_fn(obj, "M", "base_M")
        o2 == add_logical_rule_from_fn(o1, "P", "base_P")
        o3 == add_logical_rule_from_fn(o2, "T", "base_T")
        o4 == add_arithmetic_rule_from_fn(o3, "M", "base_M")
    IN  add_arithmetic_rule_from_fn(o4, "P", "base_P")

\* Assignment::add_base_rules
add_base_rules(obj) ==
    LET o1 == add_logical_rule_from_fn(obj, "M", "base_M")
        o2 == add_logical_rule_from_fn(o1, "P", "base_P")
        o3 == add_logical_rule_from_fn(o2, "T", "base_T")
        o4 == add_arithmetic_rule_from_fn(o3, "M", "base_M")
        o5 == add_arithmetic_rule_from_fn(o4, "P", "base_P")
    IN  add_arithmetic_rule_from_fn(o5, "T", "base_T")

\* Assignment::add_custom_rules
add_custom_rules(obj) ==
    LET o1 == add_logical_rule_from_fn(obj, "T", "custom_T")
        o2 == add_logical_rule_from_fn(o1, "M", "custom_M")
        o3 == add_arithmetic_rule_from_fn(o2, "P", "custom_P")
    IN  add_arithmetic_rule_from_fn(o3, "M", "custom_M")

\* if custom { Self::add_custom_rules(&mut self); }
WithCustom(self, custom) == IF custom THEN add_custom_rules(self) ELSE self

\* with_rules adding the custom set before the base set
with_rules_custom_first(self, base, custom) ==
    IF base THEN add_base_rules(WithCustom(self, custom))
    ELSE WithCustom(self, custom)

\* Assignment::with_rules
with_rules(self, base, custom) ==
    WithCustom(IF base THEN add_base_rules(self) ELSE self, custom)

\* if let Some(t) = rule.apply(a, b, c) { token = Some(t); }
Assign(t, token) ==
    IF t = "panic" THEN "panic"
    ELSE IF t # None THEN t ELSE token

\* EvalLoop keeping the first matching rule's token instead of the last
RECURSIVE EvalLoopFirstMatch(_, _, _, _)
EvalLoopFirstMatch(rules, i, token, args) ==
    IF i > Len(rules) \/ token # None THEN token
    ELSE EvalLoopFirstMatch(rules, i + 1,
             Assign(LogicalRule_apply(rules[i], args.a, args.b, args.c),
                    token),
             args)

\* The loop of Assignment::eval over self.logical_rules, from rule i on:
\* the token selected, None, or "panic"
RECURSIVE EvalLoop(_, _, _, _)
EvalLoop(rules, i, token, args) ==
    IF i > Len(rules) \/ token = "panic" THEN token
    ELSE EvalLoop(rules, i + 1,
                  Assign(LogicalRule_apply(rules[i], args.a, args.b, args.c),
                         token),
                  args)

\* Ok((token, arithmetic.apply(d, e, f)))
Applied(token, v) == IF v = Panic THEN Panic ELSE Ok(<<token, v.val>>)

\* EvalToken looking the token up in the arithmetic map before testing
\* whether any logical rule matched
EvalTokenLookupFirst(self, token, args, overflow_checks) ==
    IF token = "panic" THEN Panic
    ELSE IF token \notin DOMAIN self.arithmetic_rules
         THEN Err(NoArithmeticRuleForToken)
    ELSE Applied(token,
                 ArithmeticRule_apply(self.arithmetic_rules[token],
                                      args.d, args.e, args.f, overflow_checks))

\* EvalToken falling back to the M rule when the token has no arithmetic rule
EvalTokenFallback(self, token, args, overflow_checks) ==
    IF token = "panic" THEN Panic
    ELSE IF token = None THEN Err(NoMatchingLogicalRule)
    ELSE IF token \notin DOMAIN self.arithmetic_rules
              /\ "M" \notin DOMAIN self.arithmetic_rules
         THEN Err(NoArithmeticRuleForToken)
    ELSE Applied(token,
                 ArithmeticRule_apply(
                     self.arithmetic_rules[
                         IF token \in DOMAIN self.arithmetic_rules
                         THEN token ELSE "M"],
                     args.d, args.e, args.f, overflow_checks))

\* token.ok_or(..)?, arithmetic_rules.get(&token).ok_or(..)?, apply
EvalToken(self, token, args, overflow_checks) ==
    IF token = "panic" THEN Panic
    ELSE IF token = None THEN Err(NoMatchingLogicalRule)
    ELSE IF token \notin DOMAIN self.arithmetic_rules
         THEN Err(NoArithmeticRuleForToken)
    ELSE Applied(token,
                 ArithmeticRule_apply(self.arithmetic_rules[token],
                                      args.d, args.e, args.f, overflow_checks))

\* Assignment::eval: Ok(<<token, f64>>), Err(message) or Panic
eval(self, args, overflow_checks) ==
    EvalToken(self, EvalLoop(self.logical_rules, 1, None, args), args,
              overflow_checks)

-----------------------------------------------------------------------------
(* The calls made on the store and their arguments *)

\* add_logical_rule_from_fn(token, rule_fn)
LogicalFnRequests == {<<"M", "a">>, <<"T", "b">>, <<"T", "a">>, <<"P", "a">>}

\* add_arithmetic_rule_from_fn(token, rule_fn)
ArithmeticFnRequests == {<<"M", "3.0">>, <<"T", "3.0">>, <<"T", "4.0">>}

\* add_logical_rule_from_str(token, rule_str)
LogicalStrRequests ==
    {<<"M", S_A_AND_B>>, <<"M", S_A_PLUS_B>>, <<"P", S_AND_A>>}

\* add_arithmetic_rule_from_str(token, rule_str)
ArithmeticStrRequests ==
    {<<"M", S_D_PLUS_E>>, <<"T", S_D_MINUS_E>>, <<"P", S_D_AND_E>>,
     <<"P", S_D_STAR_STAR_E>>, <<"P", <<"D", " ", "/", " ", "0">>>>}

\* InputSet { a, b, c, d, e, f }
Inputs(numbers) ==
    {[a |-> a, b |-> b, c |-> c, d |-> n[1], e |-> n[2], f |-> n[3]] :
        a \in BOOLEAN, b \in BOOLEAN, c \in BOOLEAN, n \in numbers}

InputSet == Inputs({<<F(2), 3, 4>>, <<F(2), 3, 15>>})

InputSetBuiltin == Inputs({F(0), F(2)} \X {0, 3, I32Max} \X {0 - 1, 4, 15})

Workers == 1..NumWorkers

\* a worker thread that has served no request yet
NoRequest ==
    [endpoint |-> "none", item |-> <<>>, pc |-> "idle", res |-> Ok(<<>>),
     response |-> [status |-> 0, body |-> <<>>]]

\* RwLock::new: nobody holds the lock, no request has arrived; whether a
\* waiting writer holds back new readers is the platform's choice
ServerStarts(writers_first) ==
    /\ requests = [w \in Workers |-> NoRequest]
    /\ lock = [writer |-> 0, readers |-> {}, writers_first |-> writers_first]
    /\ applied = [init |-> [logical_rules |-> logical_rules,
                          arithmetic_rules |-> arithmetic_rules],
                 adds |-> <<>>]

self == [logical_rules |-> logical_rules, arithmetic_rules |-> arithmetic_rules]

\* the store is s
StoreIs(s) ==
    /\ logical_rules = s.logical_rules
    /\ arithmetic_rules = s.arithmetic_rules

\* the store becomes s
StoreBecomes(s) ==
    /\ logical_rules' = s.logical_rules
    /\ arithmetic_rules' = s.arithmetic_rules

\* the call leaves the store r[1] and returns r[2]
Returns(r) == StoreBecomes(r[1]) /\ ret' = r[2]

\* Assignment::new().with_rules(base, custom)
Init ==
    \E base \in BOOLEAN, custom \in BOOLEAN :
        /\ StoreIs(with_rules(Assignment_new, base, custom))
        /\ op = [name |-> "with_rules", base |-> base, custom |-> custom]
        /\ ret = Ok(<<>>)
        /\ nadds = 0
        /\ ServerStarts(FALSE)

AddLogicalRuleFromFn ==
    \E req \in LogicalFnRequests :
        /\ nadds < MaxAdds
        /\ Returns(<<add_logical_rule_from_fn(self, req[1], req[2]),
                     Ok(<<>>)>>)
        /\ op' = [name |-> "add_logical_rule_from_fn", token |-> req[1],
                  rule_fn |-> req[2]]
        /\ nadds' = nadds + 1
        /\ UNCHANGED server

AddArithmeticRuleFromFn ==
    \E req \in ArithmeticFnRequests :
        /\ nadds < MaxAdds
        /\ Returns(<<add_arithmetic_rule_from_fn(self, req[1], req[2]),
                     Ok(<<>>)>>)
        /\ op' = [name |-> "add_arithmetic_rule_from_fn", token |-> req[1],
                  rule_fn |-> req[2]]
        /\ nadds' = nadds + 1
        /\ UNCHANGED server

AddLogicalRuleFromStr ==
    \E req \in LogicalStrRequests :
        /\ nadds < MaxAdds
        /\ Returns(add_logical_rule_from_str(self, req[1], req[2]))
        /\ op' = [name |-> "add_logical_rule_from_str", token |-> req[1],
                  rule_str |-> req[2]]
        /\ nadds' = nadds + 1
        /\ UNCHANGED server

AddArithmeticRuleFromStr ==
    \E req \in ArithmeticStrRequests :
        /\ nadds < MaxAdds
        /\ Returns(add_arithmetic_rule_from_str(self, req[1], req[2]))
        /\ op' = [name |-> "add_arithmetic_rule_from_str", token |-> req[1],
                  rule_str |-> req[2]]
        /\ nadds' = nadds + 1
        /\ UNCHANGED server

\* eval that consumes the last logical rule
EvalOn_consuming(inputs) ==
    \E args \in inputs :
        /\ op' = [name |-> "eval", args |-> args]
        /\ ret' \in {eval(self, args, overflow_checks) :
                        overflow_checks \in BOOLEAN}
        /\ logical_rules' = SubSeq(logical_rules, 1, Len(logical_rules) - 1)
        /\ UNCHANGED <<arithmetic_rules, nadds, server>>

\* eval(args), built with overflow checks or without
EvalOn(inputs) ==
    \E args \in inputs :
        /\ op' = [name |-> "eval", args |-> args]
        /\ ret' \in {eval(self, args, overflow_checks) :
                        overflow_checks \in BOOLEAN}
        /\ UNCHANGED <<logical_rules, arithmetic_rules, nadds, server>>

Eval == EvalOn(InputSet)

Next ==
    \/ AddLogicalRuleFromFn
    \/ AddArithmeticRuleFromFn
    \/ AddLogicalRuleFromStr
    \/ AddArithmeticRuleFromStr
    \/ Eval

Spec == Init /\ [][Next]_vars

(* The stores of with_rules alone, evaluated on a wider set of inputs *)

EvalBuiltin == EvalOn(InputSetBuiltin)

SpecBuiltin == Init /\ [][EvalBuiltin]_vars

-----------------------------------------------------------------------------
(* Construction of string-backed rules on their own: LogicalRuleStr::new   *)
(* and ArithmeticRuleStr::new applied to the rule strings of the source's  *)
(* tests and to every short string that holds a character foreign to the  *)
(* family's whitelist.                                                     *)

MaxStrLen == 2

Strings(alphabet) == UNION {[1..k -> alphabet] : k \in 0..MaxStrLen}

LogicalAlphabet == {"A", "C", " ", "&", "|", "!", "=", "D", "+"}

LogicalForeign == {"D", "+"}

ArithmeticAlphabet == {"D", "F", "1", " ", "+", "*", "(", ")", "A", "&"}

ArithmeticForeign == {"A", "&"}

WithForeign(alphabet, foreign) ==
    {s \in Strings(alphabet) : \E i \in 1..Len(s) : s[i] \in foreign}

LogicalTestStrings ==
    {S_EMPTY,
     S_A,
     <<"B">>,
     S_A_AND_B,
     <<"A", " ", "&", "&", " ", "B", " ", "|", "|", " ", "C">>,
     <<"A", " ", "&", "&", " ", "!", "B", " ", "|", "|", " ", "C">>,
     <<"A", " ", "=", "=", " ", "B">>,
     <<"A", " ", "!", "=", " ", "B">>,
     S_A_OR_D,
     S_A_PLUS_B,
     <<"A", " ", "-", " ", "B">>,
     <<"A", " ", "*", " ", "B">>,
     <<"A", " ", "/", " ", "B">>,
     S_A_AND_AND_B,
     S_AND_A,
     <<"Z", "+", "X">>,
     S_A_AMP_B,
     S_A_ASSIGN_B,
     <<"!", "A">>,
     <<"A", " ", "|", "|", " ", "C">>}

ArithmeticTestStrings ==
    {S_EMPTY,
     <<"D">>,
     <<"E">>,
     S_A,
     <<"-", "D", " ", "+", " ", "E">>,
     <<"D", " ", "*", " ", "(", "-", "E", " ", "+", " ", "F", ")">>,
     <<"2", " ", "*", " ", "D">>,
     S_D_AND_E,
     <<"D", " ", "|", "|", " ", "E">>,
     <<"D", " ", "=", "=", " ", "E">>,
     <<"D", " ", "!", "=", " ", "E">>,
     S_SLASH_D_TIMES_E,
     S_D_STAR_STAR_E,
     <<"2", " ", "*", " ", "D", " ", "*", " ", "E", " ", "+", " ", "F">>,
     <<"D", " ", "/", " ", "0">>,
     S_D_PLUS_E,
     <<"Z", "&", "&", "X">>,
     S_D_MINUS_E,
     S_D_CALL_E,
     <<"D", " ", "/", " ", "E">>,
     <<"-", "1", "0", " ", "+", " ", "D">>}

InitValidate ==
    /\ logical_rules = Assignment_new.logical_rules
    /\ arithmetic_rules = Assignment_new.arithmetic_rules
    /\ op = [name |-> "new"]
    /\ ret = Ok(<<>>)
    /\ nadds = 0
    /\ ServerStarts(FALSE)

NewLogicalRuleStr ==
    \E token \in SubstitutionToken,
       rule_str \in LogicalTestStrings
                        \cup WithForeign(LogicalAlphabet, LogicalForeign) :
        /\ op' = [name |-> "LogicalRuleStr_new", token |-> token,
                  rule_str |-> rule_str]
        /\ ret' = LogicalRuleStr_new(token, rule_str)
        /\ UNCHANGED <<logical_rules, arithmetic_rules, nadds, server>>

NewArithmeticRuleStr ==
    \E rule_str \in ArithmeticTestStrings
                        \cup WithForeign(ArithmeticAlphabet, ArithmeticForeign) :
        /\ op' = [name |-> "ArithmeticRuleStr_new", rule_str |-> rule_str]
        /\ ret' = ArithmeticRuleStr_new(rule_str)
        /\ UNCHANGED <<logical_rules, arithmetic_rules, nadds, server>>

\* Some(token) / None as a returned value, a panic as Panic
Outcome(t) == IF t = "panic" THEN Panic ELSE Ok(t)

\* the rule the last call built (new) or was applied to (apply)
HeldRule == IF "self" \in DOMAIN op THEN op.self ELSE ret.val

\* rule.apply(a, b, c) on a LogicalRuleFn
ApplyLogicalRuleFn ==
    \E req \in LogicalFnRequests \cup {<<"M", "base_M">>, <<"T", "custom_T">>},
       a \in BOOLEAN, b \in BOOLEAN, c \in BOOLEAN :
        /\ op' = [name |-> "LogicalRuleFn_apply",
                  self |-> LogicalRuleFn_new(req[1], req[2]),
                  a |-> a, b |-> b, c |-> c]
        /\ ret' = Outcome(LogicalRuleFn_apply(
                              LogicalRuleFn_new(req[1], req[2]), a, b, c))
        /\ UNCHANGED <<logical_rules, arithmetic_rules, nadds, server>>

\* rule.apply(a, b, c) on the LogicalRuleStr that new returned, any number
\* of times
ApplyLogicalRuleStr ==
    \E a \in BOOLEAN, b \in BOOLEAN, c \in BOOLEAN :
        /\ \/ op.name = "LogicalRuleStr_new" /\ ret.kind = "Ok"
           \/ op.name = "LogicalRuleStr_apply"
        /\ op' = [name |-> "LogicalRuleStr_apply", self |-> HeldRule,
                  rule_str |-> op.rule_str, a |-> a, b |-> b, c |-> c]
        /\ ret' = Outcome(LogicalRuleStr_apply(HeldRule, a, b, c))
        /\ UNCHANGED <<logical_rules, arithmetic_rules, nadds, server>>

\* (d, e, f) given to apply
ApplyNumbers == {<<F(0), 0, 0>>, <<F(1), 0, 0>>, <<F(2), 3, 4>>}

\* rule.apply(d, e, f) on the ArithmeticRuleStr that new returned, any number
\* of times; rule_str is the string that was given to new
ApplyArithmeticRuleStr ==
    \E n \in ApplyNumbers :
        /\ \/ op.name = "ArithmeticRuleStr_new" /\ ret.kind = "Ok"
           \/ op.name = "ArithmeticRuleStr_apply"
        /\ op' = [name |-> "ArithmeticRuleStr_apply", self |-> HeldRule,
                  rule_str |-> op.rule_str,
                  d |-> n[1], e |-> n[2], f |-> n[3]]
        /\ ret' = ArithmeticRuleStr_apply(HeldRule, n[1], n[2], n[3])
        /\ UNCHANGED <<logical_rules, arithmetic_rules, nadds, server>>

NextValidate ==
    \/ NewLogicalRuleStr
    \/ NewArithmeticRuleStr
    \/ ApplyLogicalRuleFn
    \/ ApplyLogicalRuleStr
    \/ ApplyArithmeticRuleStr

SpecValidate == InitValidate /\ [][NextValidate]_vars

-----------------------------------------------------------------------------
(* Properties of evaluate *)

\* the indices of the logical rules that match args, in registration order
Matching(rules, args) ==
    {i \in 1..Len(rules) :
        LogicalRule_apply(rules[i], args.a, args.b, args.c) = rules[i].token}

Max(S) == CHOOSE x \in S : \A y \in S : y <= x

Min(S) == CHOOSE x \in S : \A y \in S : x <= y

\* the token of the last-registered rule among the matching ones
LastMatchToken(rules, args) == rules[Max(Matching(rules, args))].token

\* C1: when several logical rules match an input, evaluate selects the token
\* of the one registered last: a successful result carries that token, and a
\* failure is the missing arithmetic rule of that very token.
C1_LastMatchWins ==
    (op.name = "eval" /\ Matching(logical_rules, op.args) # {}) =>
        /\ ret.kind = "Ok" =>
               ret.val[1] = LastMatchToken(logical_rules, op.args)
        /\ ret.kind = "Err" =>
               /\ ret.msg = NoArithmeticRuleForToken
               /\ LastMatchToken(logical_rules, op.args)
                      \notin DOMAIN arithmetic_rules
        /\ LastMatchToken(logical_rules, op.args) \in DOMAIN arithmetic_rules
               => ret.kind # "Err"

\* two rules with different tokens match and the later one's token is returned
C1_Witness ==
    /\ op.name = "eval"
    /\ Cardinality(Matching(logical_rules, op.args)) >= 2
    /\ logical_rules[Min(Matching(logical_rules, op.args))].token
           # LastMatchToken(logical_rules, op.args)
    /\ ret.kind = "Ok"
    /\ ret.val[1] = LastMatchToken(logical_rules, op.args)

\* C2: when no logical rule matches, evaluate fails with "Failed to apply
\* logical rule.", whatever the arithmetic map holds.
C2_NoMatchFails ==
    (op.name = "eval" /\ Matching(logical_rules, op.args) = {}) =>
        ret = Err(NoMatchingLogicalRule)

\* no rule matches although rules are registered and every token has an
\* arithmetic rule
C2_Witness ==
    /\ op.name = "eval"
    /\ logical_rules # <<>>
    /\ Matching(logical_rules, op.args) = {}
    /\ DOMAIN arithmetic_rules = SubstitutionToken
    /\ ret = Err(NoMatchingLogicalRule)

\* C3: when the selected token has no arithmetic rule, evaluate fails with
\* "Failed to find arithmetic rule for token." and applies no arithmetic rule,
\* even if an earlier matching rule's token has one.
C3_NoArithmeticRuleFails ==
    (/\ op.name = "eval"
     /\ Matching(logical_rules, op.args) # {}
     /\ LastMatchToken(logical_rules, op.args) \notin DOMAIN arithmetic_rules)
        => ret = Err(NoArithmeticRuleForToken)

\* the selected token has no arithmetic rule while an earlier matching rule's
\* token has one
C3_Witness ==
    /\ op.name = "eval"
    /\ Matching(logical_rules, op.args) # {}
    /\ LastMatchToken(logical_rules, op.args) \notin DOMAIN arithmetic_rules
    /\ \E i \in Matching(logical_rules, op.args) :
           logical_rules[i].token \in DOMAIN arithmetic_rules
    /\ ret = Err(NoArithmeticRuleForToken)

-----------------------------------------------------------------------------
(* Properties of registration *)

AddArithmeticNames ==
    {"add_arithmetic_rule_from_fn", "add_arithmetic_rule_from_str"}

AddFromStrNames ==
    {"add_logical_rule_from_str", "add_arithmetic_rule_from_str"}

\* the arithmetic rule that the successful registration call o builds
NewArithmeticRule(o) ==
    IF o.name = "add_arithmetic_rule_from_fn"
    THEN ArithmeticRuleFn_new(o.rule_fn)
    ELSE ArithmeticRuleStr_new(o.rule_str).val

\* C4: registering an arithmetic rule for a token that already has one
\* replaces it: the map keeps one rule per token, the other tokens keep their
\* rules, and every evaluate that selects the token returns the value of the
\* newest rule.
C4_LastWriteWins ==
    [][(/\ op'.name \in AddArithmeticNames
        /\ ret'.kind = "Ok"
        /\ op'.token \in DOMAIN arithmetic_rules) =>
           /\ DOMAIN arithmetic_rules' = DOMAIN arithmetic_rules
           /\ \A t \in DOMAIN arithmetic_rules \ {op'.token} :
                  arithmetic_rules'[t] = arithmetic_rules[t]
           /\ arithmetic_rules'[op'.token] = NewArithmeticRule(op')
           /\ \A args \in InputSet, overflow_checks \in BOOLEAN :
                  EvalLoop(logical_rules', 1, None, args) = op'.token =>
                      eval(self', args, overflow_checks) =
                          Applied(op'.token,
                                  ArithmeticRule_apply(NewArithmeticRule(op'),
                                      args.d, args.e, args.f, overflow_checks))
      ]_vars

\* the base store after one call that replaced T's rule by the constant 3.0:
\* evaluate returns the new rule's value
C4_Witness ==
    /\ op.name = "eval"
    /\ nadds = 1
    /\ logical_rules = add_base_rules(Assignment_new).logical_rules
    /\ DOMAIN arithmetic_rules = SubstitutionToken
    /\ arithmetic_rules["T"] = ArithmeticRuleFn_new("3.0")
    /\ ret = Ok(<<"T", F(3)>>)

\* C5: a from-string registration that fails validation changes nothing: the
\* logical list and the arithmetic map are as before, so every input
\* evaluates as before.
C5_FailedAddKeepsStore ==
    [][(op'.name \in AddFromStrNames /\ ret'.kind = "Err") =>
           /\ logical_rules' = logical_rules
           /\ arithmetic_rules' = arithmetic_rules
           /\ \A args \in InputSet, overflow_checks \in BOOLEAN :
                  eval(self', args, overflow_checks)
                      = eval(self, args, overflow_checks)
      ]_vars

\* a rejected arithmetic string for a token whose rule is retained
C5_Witness ==
    /\ op.name = "add_arithmetic_rule_from_str"
    /\ ret.kind = "Err"
    /\ op.token \in DOMAIN arithmetic_rules
    /\ logical_rules # <<>>

\* C6: an arithmetic rule string that passed validation is applied without a
\* fault: when the arithmetic rule evaluate applies is string-backed, evaluate
\* returns a token and a float and never panics.
C6_AcceptedStringsNeverFault ==
    (/\ op.name = "eval"
     /\ Matching(logical_rules, op.args) # {}
     /\ LastMatchToken(logical_rules, op.args) \in DOMAIN arithmetic_rules
     /\ arithmetic_rules[LastMatchToken(logical_rules, op.args)].variant
            = "Str")
        => ret.kind = "Ok"

-----------------------------------------------------------------------------
(* Properties of validation *)

LogicalWhitelist == {"A", "B", "C", " ", "&", "|", "!", "="}

ArithmeticWhitelist ==
    {"D", "E", "F", " ", "+", "-", "*", "/", "(", ")",
     "0", "1", "2", "3", "4", "5", "6", "7", "8", "9"}

\* s is empty or holds a character outside chars
OutsideWhitelist(s, chars) ==
    s = <<>> \/ \E i \in 1..Len(s) : s[i] \notin chars

\* C7: a boolean rule string that is empty or holds anything but A, B, C,
\* spaces and the operators && || ! == != is rejected with InvalidGrammar, and
\* so is an arithmetic rule string that is empty or holds anything but D, E,
\* F, digits, spaces and + - * / ( ); the whitelist is tested before the
\* compile attempt, so such a string never yields an engine message.
\* "A && B" and "D + E" are accepted.
C7_WhitelistBeforeCompile ==
    /\ op.name = "LogicalRuleStr_new" =>
           /\ (\/ OutsideWhitelist(op.rule_str, LogicalWhitelist)
               \/ op.rule_str \in {S_A_AMP_B, S_A_ASSIGN_B})
                  => ret = Err(InvalidGrammar)
           /\ op.rule_str = S_A_AND_B => ret.kind = "Ok"
    /\ op.name = "ArithmeticRuleStr_new" =>
           /\ OutsideWhitelist(op.rule_str, ArithmeticWhitelist)
                  => ret = Err(InvalidGrammar)
           /\ op.rule_str = S_D_PLUS_E => ret.kind = "Ok"

\* "D && E": an arithmetic string whose operands are whitelisted and whose
\* operator is not
C7_Witness ==
    /\ op.name = "ArithmeticRuleStr_new"
    /\ op.rule_str = S_D_AND_E
    /\ ret = Err(InvalidGrammar)

\* C8: a string of whitelisted characters whose operators have the wrong
\* arity or position ("D ** E", "/D * E", "&&A", "A&&&&B") fails validation
\* with the engine's message, not InvalidGrammar, and no rule is built.
C8_MalformedFailsCompile ==
    /\ (op.name = "ArithmeticRuleStr_new" /\ op.rule_str = S_D_STAR_STAR_E)
           => ret = Err("DuplicateOperatorNode")
    /\ (op.name = "ArithmeticRuleStr_new" /\ op.rule_str = S_SLASH_D_TIMES_E)
           => ret = Err("StartWithNonValueOperator")
    /\ (op.name = "LogicalRuleStr_new"
            /\ op.rule_str \in {S_AND_A, S_A_AND_AND_B})
           => ret = Err(WrongArgs2)

\* "&&A": the engine's message comes back and no rule
C8_Witness ==
    /\ op.name = "LogicalRuleStr_new"
    /\ op.rule_str = S_AND_A
    /\ ret = Err(WrongArgs2)

-----------------------------------------------------------------------------
(* Properties of the built-in rule sets *)

BaseStore == with_rules(Assignment_new, TRUE, FALSE)

BothStore == with_rules(Assignment_new, TRUE, TRUE)

\* C9: on the store of the base set alone evaluate returns (M, d + d*e/10)
\* exactly when a and b and not c, (P, d + d*(e-f)/25.5) exactly when a and b
\* and c, (T, d - d*f/30) exactly when not a and b and c, and fails with
\* "Failed to apply logical rule." otherwise; (true, true, false, 2.0, 3, 4)
\* gives (M, 2.6); at most one base logical rule matches an input.
C9_BasePolicy ==
    (op.name = "eval" /\ self = BaseStore) =>
        /\ Cardinality(Matching(logical_rules, op.args)) <= 1
        /\ ret =
             CASE op.args.a /\ op.args.b /\ ~op.args.c ->
                    Ok(<<"M", FAdd(op.args.d,
                                   FDiv(FMul(op.args.d, F(op.args.e)),
                                        F(10)))>>)
               [] op.args.a /\ op.args.b /\ op.args.c ->
                    Ok(<<"P", FAdd(op.args.d,
                                   FDiv(FMul(op.args.d,
                                             F(op.args.e - op.args.f)),
                                        Rat(51, 2)))>>)
               [] ~op.args.a /\ op.args.b /\ op.args.c ->
                    Ok(<<"T", FSub(op.args.d,
                                   FDiv(FMul(op.args.d, F(op.args.f)),
                                        F(30)))>>)
               [] OTHER -> Err(NoMatchingLogicalRule)
        /\ op.args = [a |-> TRUE, b |-> TRUE, c |-> FALSE,
                      d |-> F(2), e |-> 3, f |-> 4]
               => ret = Ok(<<"M", Rat(13, 5)>>)

\* C10: with_rules(true, true) registers the custom set after the base set,
\* and on that store evaluate returns (T, d - d*f/30) when a and b and not c,
\* (M, f + d + d*e/100) when a and not b and c, (P, 2*d + d*e/100) when a and
\* b and c, (T, d - d*f/30) when not a and b and c, and fails with "Failed to
\* apply logical rule." otherwise; (true, true, false, 2.0, 3, 15) gives
\* (T, 1.0).
C10_CustomOverridesBase ==
    /\ (op.name = "with_rules" /\ op.base /\ op.custom) =>
           /\ Len(logical_rules) = 5
           /\ SubSeq(logical_rules, 1, 3) = BaseStore.logical_rules
           /\ logical_rules[4].token = "T" /\ logical_rules[5].token = "M"
    /\ (op.name = "eval" /\ self = BothStore) =>
        /\ ret =
             CASE op.args.a /\ op.args.b /\ ~op.args.c ->
                    Ok(<<"T", FSub(op.args.d,
                                   FDiv(FMul(op.args.d, F(op.args.f)),
                                        F(30)))>>)
               [] op.args.a /\ ~op.args.b /\ op.args.c ->
                    Ok(<<"M", FAdd(FAdd(F(op.args.f), op.args.d),
                                   FDiv(FMul(op.args.d, F(op.args.e)),
                                        F(100)))>>)
               [] op.args.a /\ op.args.b /\ op.args.c ->
                    Ok(<<"P", FAdd(FMul(F(2), op.args.d),
                                   FDiv(FMul(op.args.d, F(op.args.e)),
                                        F(100)))>>)
               [] ~op.args.a /\ op.args.b /\ op.args.c ->
                    Ok(<<"T", FSub(op.args.d,
                                   FDiv(FMul(op.args.d, F(op.args.f)),
                                        F(30)))>>)
               [] OTHER -> Err(NoMatchingLogicalRule)
        /\ op.args = [a |-> TRUE, b |-> TRUE, c |-> FALSE,
                      d |-> F(2), e |-> 3, f |-> 15]
               => ret = Ok(<<"T", F(1)>>)

\* (true, true, false, 2.0, 3, 15) on the base and custom store: (T, 1.0)
C10_Witness ==
    /\ op.name = "eval"
    /\ self = BothStore
    /\ op.args = [a |-> TRUE, b |-> TRUE, c |-> FALSE,
                  d |-> F(2), e |-> 3, f |-> 15]
    /\ ret = Ok(<<"T", F(1)>>)

-----------------------------------------------------------------------------
(* Properties of apply *)

FnMeaning(rule_fn, a, b, c) ==
    CASE rule_fn = "a" -> a
      [] rule_fn = "b" -> b
      [] rule_fn \in {"base_M", "custom_T"} -> a /\ b /\ ~c

\* the boolean value of the expressions given to LogicalRuleStr::new
StrMeaning(rule_str, a, b, c) ==
    CASE rule_str = S_A -> a
      [] rule_str = <<"B">> -> b
      [] rule_str = <<"!", "A">> -> ~a
      [] rule_str = S_A_AND_B -> a /\ b
      [] rule_str = <<"A", " ", "|", "|", " ", "C">> -> a \/ c
      [] rule_str = <<"A", " ", "=", "=", " ", "B">> -> a = b
      [] rule_str = <<"A", " ", "!", "=", " ", "B">> -> a # b
      [] rule_str = <<"A", " ", "&", "&", " ", "B", " ", "|", "|", " ", "C">>
             -> (a /\ b) \/ c
      [] rule_str =
             <<"A", " ", "&", "&", " ", "!", "B", " ", "|", "|", " ", "C">>
             -> (a /\ ~b) \/ c

\* C14: apply of a logical rule, closure-backed or string-backed, returns the
\* rule's bound token when its predicate is true of (a, b, c) and none when
\* it is false, never another token; the predicate of a string-backed rule is
\* the boolean value of its expression with A, B, C bound to a, b, c.
C14_LogicalDispatch ==
    /\ op.name = "LogicalRuleFn_apply" =>
           ret = Ok(IF FnMeaning(op.self.rule_fn, op.a, op.b, op.c)
                    THEN op.self.token ELSE None)
    /\ op.name = "LogicalRuleStr_apply" =>
           ret = Ok(IF StrMeaning(op.rule_str, op.a, op.b, op.c)
                    THEN op.self.token ELSE None)

\* "A && !B || C" on (false, true, true): the bound token
C14_Witness ==
    /\ op.name = "LogicalRuleStr_apply"
    /\ op.rule_str =
           <<"A", " ", "&", "&", " ", "!", "B", " ", "|", "|", " ", "C">>
    /\ ~op.a /\ op.b /\ op.c
    /\ ret = Ok(op.self.token)

\* C18: a boolean rule string accepted under the sample context A = B = C =
\* true evaluates to a boolean under all eight contexts, so apply on the
\* stored rule never fails.
C18_SampleContextSuffices ==
    /\ (op.name = "LogicalRuleStr_new" /\ ret.kind = "Ok") =>
           \A a \in BOOLEAN, b \in BOOLEAN, c \in BOOLEAN :
               /\ eval_boolean_with_context(op.rule_str,
                                            ContextMap(a, b, c)).kind = "Ok"
               /\ LogicalRuleStr_apply(ret.val, a, b, c)
                      \in {ret.val.token, None}
    /\ op.name = "LogicalRuleStr_apply" =>
           ret.kind = "Ok" /\ ret.val \in {op.self.token, None}

\* an accepted string applied under the context opposite to the sample
C18_Witness ==
    /\ op.name = "LogicalRuleStr_apply"
    /\ op.rule_str = <<"A", " ", "!", "=", " ", "B">>
    /\ ~op.a /\ ~op.b /\ ~op.c
    /\ ret = Ok(None)

\* C20: normalization keeps the meaning of an arithmetic rule string: the
\* stored string computes what the submitted infix expression denotes. "D - E"
\* is accepted and gives d - e, "-10 + D" is stored with (-10) as one operand,
\* "-D + E" gives e - d and "D * (-E + F)" gives d * (f - e).
C20_NormalizationKeepsMeaning ==
    /\ (op.name = "ArithmeticRuleStr_new" /\ op.rule_str = S_D_MINUS_E)
           => ret.kind = "Ok"
    /\ (op.name = "ArithmeticRuleStr_apply" /\ op.rule_str = S_D_MINUS_E)
           => ret = Ok(FSub(op.d, F(op.e)))
    /\ (/\ op.name = "ArithmeticRuleStr_new"
        /\ op.rule_str = <<"-", "1", "0", " ", "+", " ", "D">>)
           => ret = Ok([variant |-> "Str",
                        rule_str |-> <<"(", "-", "1", "0", ")", "+", "D">>])
    /\ (/\ op.name = "ArithmeticRuleStr_apply"
        /\ op.rule_str = <<"-", "D", " ", "+", " ", "E">>)
           => ret = Ok(FSub(F(op.e), op.d))
    /\ (/\ op.name = "ArithmeticRuleStr_apply"
        /\ op.rule_str =
               <<"D", " ", "*", " ", "(", "-", "E", " ", "+", " ", "F", ")">>)
           => ret = Ok(FMul(op.d, F(op.f - op.e)))

-----------------------------------------------------------------------------
(* Frame properties of the store *)

AddLogicalNames == {"add_logical_rule_from_fn", "add_logical_rule_from_str"}

\* the logical rule that the successful registration call o builds
NewLogicalRule(o) ==
    IF o.name = "add_logical_rule_from_fn"
    THEN LogicalRuleFn_new(o.token, o.rule_fn)
    ELSE [variant |-> "Str", token |-> o.token, rule_str |-> o.rule_str]

\* C15: the logical sequence is append-only: a successful add of a logical
\* rule makes it one longer with the new rule last, also when the token or the
\* very rule is already present; in every step the previous sequence stays an
\* unchanged prefix and no token leaves the arithmetic map.
C15_LogicalAppendOnly ==
    [][/\ Len(logical_rules') >= Len(logical_rules)
       /\ SubSeq(logical_rules', 1, Len(logical_rules)) = logical_rules
       /\ DOMAIN arithmetic_rules \subseteq DOMAIN arithmetic_rules'
       /\ IF op'.name \in AddLogicalNames /\ ret'.kind = "Ok"
          THEN /\ Len(logical_rules') = Len(logical_rules) + 1
               /\ logical_rules'[Len(logical_rules')] = NewLogicalRule(op')
          ELSE logical_rules' = logical_rules
      ]_vars

\* a rule was added that the sequence already held: both copies are there
C15_Witness ==
    /\ op.name \in AddLogicalNames
    /\ ret.kind = "Ok"
    /\ \E i \in 1..(Len(logical_rules) - 1) :
           logical_rules[i] = logical_rules[Len(logical_rules)]

\* C17: the two policies are independent: adding or replacing an arithmetic
\* rule leaves the logical sequence, hence the token selected for every
\* input, unchanged; adding a logical rule leaves the arithmetic map, hence
\* the formula of every token, unchanged.
C17_PoliciesIndependent ==
    [][/\ op'.name \in AddArithmeticNames =>
              /\ logical_rules' = logical_rules
              /\ \A args \in InputSet :
                     EvalLoop(logical_rules', 1, None, args)
                         = EvalLoop(logical_rules, 1, None, args)
       /\ op'.name \in AddLogicalNames =>
              arithmetic_rules' = arithmetic_rules
      ]_vars

\* an arithmetic rule was replaced for a token that logical rules select
C17_Witness ==
    /\ op.name \in AddArithmeticNames
    /\ ret.kind = "Ok"
    /\ \E i \in 1..Len(logical_rules) : logical_rules[i].token = op.token
    /\ nadds = MaxAdds

\* C19: evaluate reads only: it leaves the logical sequence and the
\* arithmetic map unchanged, and its result is a function of the store and
\* the input alone, so equal inputs on the same store give equal results
\* whatever evaluate calls came before.
C19_EvalReadOnly ==
    [][op'.name = "eval" =>
           /\ logical_rules' = logical_rules
           /\ arithmetic_rules' = arithmetic_rules
           /\ \A overflow_checks \in BOOLEAN :
                  ret' = eval(self, op'.args, overflow_checks)
      ]_vars

\* an evaluate that returned a value from a store holding a string-backed
\* rule
C19_Witness ==
    /\ op.name = "eval"
    /\ ret.kind = "Ok"
    /\ \E t \in DOMAIN arithmetic_rules : arithmetic_rules[t].variant = "Str"
    /\ \E i \in 1..Len(logical_rules) : logical_rules[i].variant = "Str"

-----------------------------------------------------------------------------
(* The actix application: three endpoints on one Arc<RwLock<Assignment>>.  *)
(* Every worker thread serves one request at a time; a handler takes the   *)
(* lock, calls the store, builds the response and returns, which drops     *)
(* the guard.                                                              *)

AddEndpoints == {"add_logical_rule", "add_arithmetic_rule"}

\* item: web::Json<AddRuleReq> / web::Json<InputSet>, per endpoint
Items(endpoint) ==
    IF endpoint = "add_logical_rule"
    THEN {<<"M", S_A_AND_B>>, <<"M", S_A_PLUS_B>>}
    ELSE IF endpoint = "add_arithmetic_rule"
    THEN {<<"M", S_D_PLUS_E>>, <<"P", S_D_STAR_STAR_E>>}
    ELSE {args \in InputSet : args.f = 4 /\ args.a = args.b /\ ~args.c}

\* the guard is held: from the return of write() / read() to the return of
\* the handler
Holds(w) == requests[w].pc \in {"call", "respond"}

\* an add handler is blocked in write()
WriterWaiting ==
    \E w \in Workers :
        requests[w].pc = "lock" /\ requests[w].endpoint \in AddEndpoints

\* add requests that have not made their call yet
PendingAdds ==
    {w \in Workers : /\ requests[w].endpoint \in AddEndpoints
                     /\ requests[w].pc \in {"lock", "call"}}

\* the handler of a worker thread is entered with a request
Receive(w) ==
    \E endpoint \in AddEndpoints \cup {"eval"} :
        \E item \in Items(endpoint) :
            /\ requests[w].pc = "idle"
            /\ endpoint \in AddEndpoints =>
                   nadds + Cardinality(PendingAdds) < MaxAdds
            /\ requests' = [requests EXCEPT ![w] =
                   [endpoint |-> endpoint, item |-> item, pc |-> "lock",
                    res |-> Ok(<<>>),
                    response |-> [status |-> 0, body |-> <<>>]]]
            /\ UNCHANGED <<logical_rules, arithmetic_rules, op, ret, nadds,
                           lock, applied>>

\* an add handler that takes the lock with read()
LockWrite_shared(w) ==
    /\ requests[w].pc = "lock"
    /\ requests[w].endpoint \in AddEndpoints
    /\ lock.writer = 0
    /\ lock' = [lock EXCEPT !.readers = @ \cup {w}]
    /\ requests' = [requests EXCEPT ![w].pc = "call"]
    /\ UNCHANGED <<logical_rules, arithmetic_rules, op, ret, nadds, applied>>

\* let mut data = (*data).write().unwrap(): returns when no guard is held
LockWrite(w) ==
    /\ requests[w].pc = "lock"
    /\ requests[w].endpoint \in AddEndpoints
    /\ lock.writer = 0
    /\ lock.readers = {}
    /\ lock' = [lock EXCEPT !.writer = w]
    /\ requests' = [requests EXCEPT ![w].pc = "call"]
    /\ UNCHANGED <<logical_rules, arithmetic_rules, op, ret, nadds, applied>>

\* read() of a Mutex-like lock: one guard at a time
LockRead_exclusive(w) ==
    /\ requests[w].pc = "lock"
    /\ requests[w].endpoint = "eval"
    /\ lock.writer = 0
    /\ lock.readers = {}
    /\ lock' = [lock EXCEPT !.readers = @ \cup {w}]
    /\ requests' = [requests EXCEPT ![w].pc = "call"]
    /\ UNCHANGED <<logical_rules, arithmetic_rules, op, ret, nadds, applied>>

\* let data = (*data).read().unwrap(): returns when no write guard is held
\* and, on a platform that serves writers first, no writer is waiting
LockRead(w) ==
    /\ requests[w].pc = "lock"
    /\ requests[w].endpoint = "eval"
    /\ lock.writer = 0
    /\ lock.writers_first => ~WriterWaiting
    /\ lock' = [lock EXCEPT !.readers = @ \cup {w}]
    /\ requests' = [requests EXCEPT ![w].pc = "call"]
    /\ UNCHANGED <<logical_rules, arithmetic_rules, op, ret, nadds, applied>>

\* the handler has its result in res; an add that succeeded enters the
\* history
Called(w) ==
    /\ requests' = [requests EXCEPT ![w].pc = "respond", ![w].res = ret']
    /\ applied' =
           IF requests[w].endpoint \in AddEndpoints /\ ret'.kind = "Ok"
           THEN [applied EXCEPT !.adds =
                    Append(@, [endpoint |-> requests[w].endpoint,
                               item |-> requests[w].item])]
           ELSE applied

\* let res = data.add_logical_rule_from_str(item.token.clone(),
\*                                          item.rule_str.clone())
CallAddLogicalRule(w) ==
    /\ requests[w].pc = "call"
    /\ requests[w].endpoint = "add_logical_rule"
    /\ Returns(add_logical_rule_from_str(self, requests[w].item[1],
                                         requests[w].item[2]))
    /\ op' = [name |-> "add_logical_rule_from_str",
              token |-> requests[w].item[1],
              rule_str |-> requests[w].item[2]]
    /\ nadds' = nadds + 1
    /\ Called(w)
    /\ UNCHANGED lock

\* let res = data.add_arithmetic_rule_from_str(item.token.clone(),
\*                                             item.rule_str.clone())
CallAddArithmeticRule(w) ==
    /\ requests[w].pc = "call"
    /\ requests[w].endpoint = "add_arithmetic_rule"
    /\ Returns(add_arithmetic_rule_from_str(self, requests[w].item[1],
                                            requests[w].item[2]))
    /\ op' = [name |-> "add_arithmetic_rule_from_str",
              token |-> requests[w].item[1],
              rule_str |-> requests[w].item[2]]
    /\ nadds' = nadds + 1
    /\ Called(w)
    /\ UNCHANGED lock

\* an eval handler that reads a copy of the store made when the server
\* started
CallEval_stale(w) ==
    /\ requests[w].pc = "call"
    /\ requests[w].endpoint = "eval"
    /\ op' = [name |-> "eval", args |-> requests[w].item]
    /\ ret' \in {eval(applied.init, requests[w].item, overflow_checks) :
                    overflow_checks \in BOOLEAN}
    /\ Called(w)
    /\ UNCHANGED <<logical_rules, arithmetic_rules, nadds, lock>>

\* let res = data.eval(item.0)
CallEval(w) ==
    /\ requests[w].pc = "call"
    /\ requests[w].endpoint = "eval"
    /\ op' = [name |-> "eval", args |-> requests[w].item]
    /\ ret' \in {eval(self, requests[w].item, overflow_checks) :
                    overflow_checks \in BOOLEAN}
    /\ Called(w)
    /\ UNCHANGED <<logical_rules, arithmetic_rules, nadds, lock>>

\* a handler that answers 200 whatever the result
HttpResponse_always_ok(res) ==
    IF res.kind = "Ok" THEN [status |-> 200, body |-> res.val]
    ELSE IF res.kind = "Err" THEN [status |-> 200, body |-> res.msg]
    ELSE [status |-> 0, body |-> <<>>]

\* if res.is_err() { HttpResponse::BadRequest().json(err.to_string()) }
\* else { HttpResponse::Ok().json(res.unwrap()) }; a handler that panicked
\* builds no response
HttpResponse(res) ==
    IF res.kind = "Err" THEN [status |-> 400, body |-> res.msg]
    ELSE IF res.kind = "Ok" THEN [status |-> 200, body |-> res.val]
    ELSE [status |-> 0, body |-> <<>>]

\* the handler returns (or unwinds): the response goes out and the guard is
\* dropped
Return(w) ==
    /\ requests[w].pc = "respond"
    /\ requests' = [requests EXCEPT
                       ![w].pc = "idle",
                       ![w].item = <<>>,
                       ![w].response = HttpResponse(requests[w].res)]
    /\ lock' = [lock EXCEPT !.writer = IF @ = w THEN 0 ELSE @,
                            !.readers = @ \ {w}]
    /\ UNCHANGED <<logical_rules, arithmetic_rules, op, ret, nadds, applied>>

\* Assignment::new().with_rules(true, true) in run_actix_app; the tests of
\* the handlers also serve Assignment::new()
InitHttp ==
    \E base \in BOOLEAN, writers_first \in BOOLEAN, custom \in BOOLEAN :
        /\ custom = base
        /\ StoreIs(with_rules(Assignment_new, base, custom))
        /\ op = [name |-> "with_rules", base |-> base, custom |-> custom]
        /\ ret = Ok(<<>>)
        /\ nadds = 0
        /\ ServerStarts(writers_first)

NextHttp ==
    \E w \in Workers :
        \/ Receive(w)
        \/ LockWrite(w)
        \/ LockRead(w)
        \/ CallAddLogicalRule(w)
        \/ CallAddArithmeticRule(w)
        \/ CallEval(w)
        \/ Return(w)

SpecHttp == InitHttp /\ [][NextHttp]_vars

-----------------------------------------------------------------------------
(* Properties of the server *)

\* a write guard is held, or the lock keeps new readers back for a writer
\* that waits
WriterGranted == lock.writer # 0 \/ (lock.writers_first /\ WriterWaiting)

\* the handler of w has returned a response for its request
Completed(w) == requests[w].pc = "idle" /\ requests[w].endpoint # "none"

\* C12: writer exclusion: while an add_logical_rule or add_arithmetic_rule
\* request holds the store, no evaluate request and no other add request
\* holds it.
C12_WriterExclusion ==
    \A w \in Workers :
        Holds(w) /\ requests[w].endpoint \in AddEndpoints =>
            \A v \in Workers \ {w} : ~Holds(v)

\* an add holds the store, before its call, while an evaluate waits for it
C12_Witness ==
    \E w \in Workers, v \in Workers :
        /\ requests[w].pc = "call"
        /\ requests[w].endpoint \in AddEndpoints
        /\ requests[v].pc = "lock"
        /\ requests[v].endpoint = "eval"

\* C13: readers share the store: while one evaluate holds the store, another
\* evaluate that asks for it can take it at once, unless a writer holds the
\* store or has been granted it; two evaluates holding the store together is
\* the witness.
C13_ReadersShare ==
    \A w \in Workers, v \in Workers :
        /\ requests[w].pc = "lock"
        /\ requests[w].endpoint = "eval"
        /\ Holds(v)
        /\ requests[v].endpoint = "eval"
        /\ ~WriterGranted
        => ENABLED LockRead(w)

\* two evaluate requests hold the store at the same time
C13_Witness ==
    \E w \in Workers, v \in Workers :
        /\ w # v
        /\ Holds(w) /\ requests[w].endpoint = "eval"
        /\ Holds(v) /\ requests[v].endpoint = "eval"

\* C16: transport mapping: a request is answered 200 with the result payload
\* exactly when the core operation succeeded, and 400 with the text of the
\* error exactly when it returned an error.
C16_TransportMapping ==
    \A w \in Workers :
        Completed(w) =>
            IF requests[w].res.kind = "Ok"
            THEN /\ requests[w].response.status = 200
                 /\ requests[w].response.body = requests[w].res.val
            ELSE IF requests[w].res.kind = "Err"
            THEN /\ requests[w].response.status = 400
                 /\ requests[w].response.body = requests[w].res.msg
            ELSE requests[w].response.status \notin {200, 400}

\* an evaluate answered 200 and an add answered 400
C16_Witness ==
    \E w \in Workers, v \in Workers :
        /\ Completed(w) /\ requests[w].endpoint = "eval"
        /\ requests[w].response.status = 200
        /\ Completed(v) /\ requests[v].endpoint \in AddEndpoints
        /\ requests[v].response.status = 400

-----------------------------------------------------------------------------
(* Properties of the built-in rule sets *)

CustomStore == with_rules(Assignment_new, FALSE, TRUE)

\* every token a logical rule of the store is bound to has an arithmetic rule
Covered ==
    \A i \in 1..Len(logical_rules) :
        logical_rules[i].token \in DOMAIN arithmetic_rules

\* evaluate did not fail with "Failed to find arithmetic rule for token."
NoMissingFormula ==
    op.name = "eval" /\ ret.kind = "Err" => ret.msg = NoMatchingLogicalRule

\* C21 as stated: in every store with_rules builds, whatever the two flags,
\* every token a logical rule can select has an arithmetic rule, and evaluate
\* never fails with NoArithmeticRuleForToken.
C21_EveryBuiltinStoreCovered == Covered /\ NoMissingFormula

\* C21, amended: this holds for the stores built with the base set (alone or
\* followed by the custom set) and for the empty store; the store of the
\* custom set alone binds a logical rule to T without an arithmetic rule for
\* T, and there evaluate fails with NoArithmeticRuleForToken exactly on the
\* inputs with a and b and not c.
C21_StoresWithBaseCovered ==
    IF self = CustomStore
    THEN /\ ~Covered
         /\ op.name = "eval" =>
                (ret = Err(NoArithmeticRuleForToken)
                    <=> op.args.a /\ op.args.b /\ ~op.args.c)
    ELSE Covered /\ NoMissingFormula

\* evaluate on the custom-only store selected T and found no formula
C21_Witness ==
    /\ self = CustomStore
    /\ op.name = "eval"
    /\ op.args.a /\ op.args.b /\ ~op.args.c
    /\ ret = Err(NoArithmeticRuleForToken)

\* C22: the base P formula is total over the i32 inputs: whenever evaluate
\* applies it (base store, a and b and c), for all e and f, also when e - f is
\* outside the i32 range, it returns d + d*(e - f)/25.5 with the exact
\* difference, without wrap-around and without an overflow fault.
C22_BasePTotal ==
    (/\ op.name = "eval"
     /\ self = BaseStore
     /\ op.args.a /\ op.args.b /\ op.args.c) =>
        /\ ret.kind = "Ok"
        /\ ret.val[2] = FAdd(op.args.d,
                             FDiv(FMul(op.args.d, F(op.args.e - op.args.f)),
                                  Rat(51, 2)))

-----------------------------------------------------------------------------
(* Visibility of adds *)

\* LogicalRuleStr::new of every item the add_logical_rule endpoint receives
LogicalRuleOf ==
    [item \in Items("add_logical_rule") |->
        LogicalRuleStr_new(item[1], item[2])]

\* ArithmeticRuleStr::new of every item the add_arithmetic_rule endpoint
\* receives
ArithmeticRuleOf ==
    [item \in Items("add_arithmetic_rule") |-> ArithmeticRuleStr_new(item[2])]

\* the store after one more add request: add_logical_rule_from_str /
\* add_arithmetic_rule_from_str on the rule of its item
ApplyAdd(store, add) ==
    IF add.endpoint = "add_logical_rule"
    THEN AddLogicalChecked(store, LogicalRuleOf[add.item])[1]
    ELSE AddArithmeticChecked(store, add.item[1],
                              ArithmeticRuleOf[add.item])[1]

\* the store after the add requests of adds, made one after the other
RECURSIVE Replay(_, _)
Replay(store, adds) ==
    IF adds = <<>> THEN store
    ELSE Replay(ApplyAdd(store, Head(adds)), Tail(adds))

\* C23: add-then-evaluate visibility: the adds that succeeded take effect in
\* one total order, the order of their calls: the store is at every moment
\* the result of all of them made one after the other, so it never holds a
\* later add without the earlier ones; an add that succeeded is in that order
\* before its handler returns; every
\* evaluate result is the one of the store of all adds called before it,
\* hence of all adds completed before it started.
C23_AddVisibility ==
    /\ self = Replay(applied.init, applied.adds)
    /\ \A w \in Workers :
           (/\ requests[w].endpoint \in AddEndpoints
            /\ requests[w].pc = "respond"
            /\ requests[w].res.kind = "Ok") =>
               \E i \in 1..Len(applied.adds) :
                   applied.adds[i] = [endpoint |-> requests[w].endpoint,
                                      item |-> requests[w].item]
    /\ \A w \in Workers :
           (requests[w].endpoint = "eval" /\ requests[w].pc = "respond") =>
               \E overflow_checks \in BOOLEAN :
                   requests[w].res =
                       eval(self, requests[w].item, overflow_checks)

\* an evaluate returned, after the add of another worker had completed with
\* 200, a result that the store the server started with does not give
C23_Witness ==
    \E w \in Workers, v \in Workers :
        /\ Completed(v)
        /\ requests[v].endpoint \in AddEndpoints
        /\ requests[v].response.status = 200
        /\ requests[w].endpoint = "eval"
        /\ requests[w].pc = "respond"
        /\ \A overflow_checks \in BOOLEAN :
               requests[w].res # eval(applied.init, requests[w].item,
                                      overflow_checks)

-----------------------------------------------------------------------------
(* Progress of requests *)

\* every worker thread is scheduled: a handler step that stays possible is
\* taken. The call step of a handler is possible exactly while its pc is
\* "call", so its weak fairness is that the pc does not stay there. Whether
\* requests arrive is left open.
Fairness ==
    \A w \in Workers :
        /\ WF_vars(LockWrite(w))
        /\ WF_vars(LockRead(w))
        /\ []<>(requests[w].pc # "call")
        /\ WF_vars(Return(w))

SpecHttpFair == SpecHttp /\ Fairness

\* some worker thread can take a step
NoDeadlock ==
    \E w \in Workers :
        \/ Holds(w)
        \/ ENABLED Receive(w)
        \/ ENABLED LockWrite(w)
        \/ ENABLED LockRead(w)

\* C24: every request eventually completes: no reachable state is a
\* deadlock, and every add request and every evaluate request that has
\* entered its handler eventually obtains the store and returns, also while
\* other evaluate requests keep arriving.
C24_EveryRequestCompletes ==
    /\ []NoDeadlock
    /\ \A w \in Workers :
           (requests[w].pc = "lock") ~> (requests[w].pc = "idle")

=============================================================================
